---------------------------- MODULE Spec2Model ----------------------------
(***************************************************************************)
(* A model of virtualenvapi/pip.py: the class PipWrapper, a wrapper that   *)
(* runs <root>/bin/pip as a subprocess.                                    *)
(*                                                                         *)
(* Strings.  A Python string (text or bytes) is a sequence of chunks, each *)
(* chunk a TLA+ string.  Wherever the code looks inside a string (path     *)
(* separators, whitespace, the search separator and marker, "~" and "$")   *)
(* the characters concerned are chunks of their own; an identifier the     *)
(* code never looks into ("bin", "foo", "--cache-dir") is one chunk.       *)
(* A byte outside ASCII is written "xHH", a character outside ASCII        *)
(* "U+HH".  None is the empty sequence of an optional value, <<v>> is the  *)
(* value v.                                                                *)
(*                                                                         *)
(* The interpreter is Python 3 on POSIX (six.u is the identity there,      *)
(* os.sep is "/" and os.linesep is "\n").                                  *)
(***************************************************************************)
EXTENDS Naturals, Sequences, FiniteSets, TLC

VARIABLES
    fs,                 \* the filesystem: what is found at each path <root>/bin/pip
    global_pip_args,    \* the list object PipWrapper.global_pip_args
    wrappers,           \* the PipWrapper instances, in order of construction
    pc,                 \* where the (single) caller is
    call,               \* the public method being run and its arguments
    proc,               \* the subprocess of the current call
    spawns,             \* Popen attempts made by the current call
    result,             \* what _execute returned or raised
    outcome,            \* what the public method returned or raised
    printed             \* what the current call has printed to sys.stdout

vars == <<fs, global_pip_args, wrappers, pc, call, proc, spawns, result, outcome, printed>>

---------------------------------------------------------------------------
(* Bounds of the model. *)

\* At most this many PipWrapper instances are constructed.
MaxWrappers == 2

\* The stdout of a search has at most this many lines (SearchSpec).
MaxLines == 2

---------------------------------------------------------------------------
(* The standard library, as far as pip.py uses it. *)

None == <<>>

Some(v) == <<v>>

os_sep == "/"

os_linesep == <<"\n">>

\* The environment of the invoking process.
os_environ == [HOME |-> <<"/", "h">>, TMP |-> <<"/", "t">>]

\* posixpath.join(a, b)
os_path_join(a, b) ==
    IF b # <<>> /\ Head(b) = os_sep THEN b
    ELSE IF a = <<>> \/ a[Len(a)] = os_sep THEN a \o b
    ELSE a \o <<os_sep>> \o b

\* posixpath.expandvars(p), for the form $NAME (NAME one chunk): a variable
\* that is set is replaced by its value, any other text is kept.
RECURSIVE os_path_expandvars(_)
os_path_expandvars(p) ==
    IF p = <<>> THEN <<>>
    ELSE IF Head(p) = "$" /\ Len(p) >= 2 /\ p[2] \in DOMAIN os_environ
         THEN os_environ[p[2]] \o os_path_expandvars(SubSeq(p, 3, Len(p)))
         ELSE <<Head(p)>> \o os_path_expandvars(Tail(p))

\* s.rstrip("/")
RECURSIVE rstrip_sep(_)
rstrip_sep(s) ==
    IF s # <<>> /\ s[Len(s)] = os_sep THEN rstrip_sep(SubSeq(s, 1, Len(s) - 1))
    ELSE s

\* posixpath.expanduser(p): a leading "~" that stands alone or is followed
\* by "/" becomes $HOME without its trailing separators; "~user" names a
\* user the password database does not know and is kept.
os_path_expanduser(p) ==
    IF p = <<>> \/ Head(p) # "~" THEN p
    ELSE IF Len(p) >= 2 /\ p[2] # os_sep THEN p
    ELSE LET userhome == rstrip_sep(os_environ.HOME)
             expanded == userhome \o Tail(p)
         IN  IF expanded = <<>> THEN <<os_sep>> ELSE expanded

\* The whitespace bytes.strip() removes.
BytesWhitespace == {" ", "\t", "\n", "\r", "\f", "x0B"}

\* The whitespace str.strip() removes: more than the ASCII one.
StrWhitespace == BytesWhitespace \cup {"x1C", "x1D", "x1E", "x1F", "U+85", "U+A0"}

RECURSIVE lstrip(_, _)
lstrip(s, ws) == IF s # <<>> /\ Head(s) \in ws THEN lstrip(Tail(s), ws) ELSE s

RECURSIVE rstrip(_, _)
rstrip(s, ws) ==
    IF s # <<>> /\ s[Len(s)] \in ws THEN rstrip(SubSeq(s, 1, Len(s) - 1), ws) ELSE s

\* bytes.strip()
bytes_strip(b) == rstrip(lstrip(b, BytesWhitespace), BytesWhitespace)

\* str.strip()
str_strip(s) == rstrip(lstrip(s, StrWhitespace), StrWhitespace)

\* s.find(sub), counted from 1; 0 when sub does not occur in s.
find(s, sub) ==
    LET hits == {i \in 1..(Len(s) + 1) :
                    /\ i + Len(sub) - 1 <= Len(s)
                    /\ SubSeq(s, i, i + Len(sub) - 1) = sub}
    IN  IF hits = {} THEN 0 ELSE CHOOSE i \in hits : \A j \in hits : i <= j

\* s.split(sep, 1)
split_1(s, sep) ==
    LET i == find(s, sep)
    IN  IF i = 0 THEN <<s>>
        ELSE <<SubSeq(s, 1, i - 1), SubSeq(s, i + Len(sep), Len(s))>>

\* s.split(sep)
RECURSIVE split(_, _)
split(s, sep) ==
    LET i == find(s, sep)
    IN  IF i = 0 THEN <<s>>
        ELSE <<SubSeq(s, 1, i - 1)>> \o split(SubSeq(s, i + Len(sep), Len(s)), sep)

\* six.u(s) on Python 3
six_u(s) == s

---------------------------------------------------------------------------
(* virtualenvapi.util.to_text: bytes to text. *)

Utf8 == [xC2 |-> [xA0 |-> "U+A0"], xC3 |-> [xA9 |-> "U+E9"]]

RECURSIVE to_text(_)
to_text(b) ==
    IF b = <<>> THEN <<>>
    ELSE IF Head(b) \in DOMAIN Utf8 /\ Len(b) >= 2 /\ b[2] \in DOMAIN Utf8[Head(b)]
         THEN <<Utf8[Head(b)][b[2]]>> \o to_text(SubSeq(b, 3, Len(b)))
         ELSE <<Head(b)>> \o to_text(Tail(b))

---------------------------------------------------------------------------
(* The inputs the model draws from. *)

Roots == { <<"/", "v">>, <<"/", "w">> }

\* What the filesystem holds at <root>/bin/pip:
\*   "file"      a regular file that can be executed as a program;
\*   "noexec"    a regular file without execute permission;
\*   "noformat"  a regular file with execute permission that is no program;
\*   "dir"       a directory;
\*   "absent"    nothing, <root>/bin being a directory;
\*   "binfile"   nothing, <root>/bin being a regular file;
\*   "noroot"    nothing, <root> itself missing.
FsKinds == {"file", "noexec", "noformat", "dir", "absent", "binfile", "noroot"}

RegularFileKinds == {"file", "noexec", "noformat"}

\* The arguments PipWrapper is constructed with: (path, cache).
WrapperInputs ==
    { << <<"/", "v">>, None >>,
      << <<"/", "w">>, Some(<<"~", "/", "c">>) >>,
      << <<"/", "v">>, Some(<<"$", "TMP", "/", "d">>) >> }

PackageNames == { <<"foo">>, <<"bar">> }

OptionInputs == { None, Some(<<<<"-U">>>>) }

ExitCodes == {0, 1, 2}

StdoutSamples == { <<>>, <<" ", "a", " ", "-", " ", "xC3", "xA9", "\n">> }

StderrSamples == { <<>>, <<"\n", "e", "r", "r", " ">> }

\* Lines a search may write, as bytes.
LineSamples ==
    { <<>>,
      <<"b">>,
      <<"a", " ", "-", " ", "b">>,
      <<"a", " ", "-", " ">>,
      <<" ", "-", " ", "b">>,
      <<"a", " ", "-", " ", "c", "<", "b", "r", "d">>,
      <<"b", " ", "-", " ", "a", " ", "-", " ", "c">>,
      <<" ", "a", "xC2", "xA0", " ", "-", " ", "xC3", "xA9", " ">> }

RECURSIVE JoinLines(_)
JoinLines(ls) ==
    IF ls = <<>> THEN <<>>
    ELSE IF Len(ls) = 1 THEN ls[1]
    ELSE ls[1] \o <<"\n">> \o JoinLines(Tail(ls))

\* What a search may write to stdout: up to MaxLines lines.
SearchStdouts ==
    { JoinLines(ls) : ls \in UNION { [1..n -> LineSamples] : n \in 0..MaxLines } }

---------------------------------------------------------------------------
(* PipWrapper *)

EmptyEnv == [HOME |-> <<>>, TMP |-> <<>>]

NoCall == [op |-> "none", self |-> 0, name |-> <<>>, options |-> None, args |-> <<>>]

NoProc ==
    [launched |-> FALSE, state |-> "none", argv |-> <<>>, cwd |-> <<>>, env |-> EmptyEnv,
     error |-> <<>>, stdout |-> <<>>, stderr |-> <<>>, returncode |-> 0]

NoResult == [kind |-> "none"]

\* PipWrapper.global_pip_args, the class attribute, as the class statement
\* leaves it.
class_global_pip_args == << <<"--disable-pip-version-check">> >>

\* self.global_pip_args, read through instance i.  The class attribute is
\* one list object; "self.global_pip_args += [...]" extends that object in
\* place and binds the instance attribute to the same object, so every
\* instance, with or without an attribute of its own, reads the one list.
self_global_pip_args(i) == global_pip_args

\* PipWrapper.pip_rpath
pip_rpath == os_path_join(<<"bin">>, <<"pip">>)

\* A variant of os_path_isfile: os.path.exists(p), true of a directory too.
os_path_exists(p) == p \in DOMAIN fs /\ fs[p] \in RegularFileKinds \cup {"dir"}

\* os.path.isfile(p)
os_path_isfile(p) == p \in DOMAIN fs /\ fs[p] \in RegularFileKinds

FsPaths == { os_path_join(r, pip_rpath) : r \in Roots }

\* The caller is between two calls.
Ready == pc = "idle"

Init ==
    /\ fs \in [FsPaths -> FsKinds]
    /\ global_pip_args = class_global_pip_args
    /\ wrappers = <<>>
    /\ pc = "idle"
    /\ call = NoCall
    /\ proc = NoProc
    /\ spawns = 0
    /\ result = NoResult
    /\ outcome = NoResult
    /\ printed = <<>>

\* PipWrapper.__init__(path, cache).  The field cache is not an attribute
\* of the instance: it records the argument the instance was given.
New(path, cache) ==
    /\ Ready
    /\ Len(wrappers) < MaxWrappers
    /\ global_pip_args' =
          IF cache # None
          THEN global_pip_args \o
               << <<"--cache-dir">>, os_path_expanduser(os_path_expandvars(cache[1])) >>
          ELSE global_pip_args
    /\ wrappers' = Append(wrappers, [path |-> path, cache |-> cache, env |-> os_environ])
    /\ pc' = "idle"
    /\ call' = NoCall
    /\ proc' = NoProc
    /\ spawns' = 0
    /\ result' = NoResult
    /\ outcome' = NoResult
    /\ printed' = <<>>
    /\ UNCHANGED fs

\* Between two calls, something outside the program changes what is at
\* <root>/bin/pip.  (While a call runs, the change the model follows is the
\* one its own subprocess makes: ProcExit.)
FsChange(p, k) ==
    /\ Ready
    /\ fs[p] # k
    /\ fs' = [fs EXCEPT ![p] = k]
    /\ UNCHANGED <<global_pip_args, wrappers, pc, call, proc, spawns, result, outcome, printed>>

\* PipWrapper.exists()
exists(i) ==
    /\ Ready
    /\ i \in 1..Len(wrappers)
    /\ pc' = "done"
    /\ call' = [NoCall EXCEPT !.op = "exists", !.self = i]
    /\ outcome' = [kind |-> "return",
                   value |-> os_path_isfile(os_path_join(wrappers[i].path, pip_rpath))]
    /\ proc' = NoProc
    /\ spawns' = 0
    /\ result' = NoResult
    /\ printed' = <<>>
    /\ UNCHANGED <<fs, global_pip_args, wrappers>>

\* A public method that runs a command is entered: it builds its args and
\* calls _execute.
Enter(op, i, name, options, args) ==
    /\ Ready
    /\ i \in 1..Len(wrappers)
    /\ pc' = "execute"
    /\ call' = [op |-> op, self |-> i, name |-> name, options |-> options, args |-> args]
    /\ proc' = NoProc
    /\ spawns' = 0
    /\ result' = NoResult
    /\ outcome' = NoResult
    /\ printed' = <<>>
    /\ UNCHANGED <<fs, global_pip_args, wrappers>>

\* install: "if options is None: options = []", then the args.
install_args(package_name, options) ==
    LET opts == IF options = None THEN <<>> ELSE options[1]
    IN  << <<"install">>, package_name >> \o opts

uninstall_args(package_name) == << <<"uninstall">>, <<"-y">>, package_name >>

wheel_args(package_name, options) ==
    LET opts == IF options = None THEN <<>> ELSE options[1]
    IN  << <<"wheel">>, package_name >> \o opts

search_args(term) == << <<"search">>, term >>

install(i, package_name, options) ==
    Enter("install", i, package_name, options, install_args(package_name, options))

uninstall(i, package_name) ==
    Enter("uninstall", i, package_name, None, uninstall_args(package_name))

wheel(i, package_name, options) ==
    Enter("wheel", i, package_name, options, wheel_args(package_name, options))

search(i, term) ==
    Enter("search", i, term, None, search_args(term))

\* A variant of execute_args: the global flags after the command's arguments.
execute_args_flags_last(i, args) == <<pip_rpath>> \o args \o self_global_pip_args(i)

\* _execute, its first line: the argument vector.
execute_args(i, args) == <<pip_rpath>> \o self_global_pip_args(i) \o args

\* str(e) of the OSError that Popen raises when it cannot run the program:
\* the error number, its text and the name the error is about, which is
\* the program as it was given, or cwd when the child cannot enter it.
strerror(kind, prog, cwd) ==
    CASE kind = "noroot" -> <<"[Errno 2] No such file or directory: '">> \o cwd \o <<"'">>
      [] kind = "absent" -> <<"[Errno 2] No such file or directory: '">> \o prog \o <<"'">>
      [] kind = "binfile" -> <<"[Errno 20] Not a directory: '">> \o prog \o <<"'">>
      [] kind = "noformat" -> <<"[Errno 8] Exec format error: '">> \o prog \o <<"'">>
      [] kind \in {"dir", "noexec"} -> <<"[Errno 13] Permission denied: '">> \o prog \o <<"'">>

\* subprocess.Popen(args, cwd=self.path, env=self.env, ...): the child
\* changes to cwd and executes args[0], a path relative to cwd.  It runs
\* only when an executable program is there; otherwise Popen raises OSError.
Popen ==
    /\ pc = "execute"
    /\ LET w == wrappers[call.self]
           argv == execute_args(call.self, call.args)
           kind == fs[os_path_join(w.path, argv[1])]
       IN  /\ proc' = [NoProc EXCEPT !.launched = (kind = "file"),
                                     !.state = IF kind = "file" THEN "running" ELSE "failed",
                                     !.argv = argv, !.cwd = w.path, !.env = w.env,
                                     !.error = IF kind = "file" THEN <<>>
                                               ELSE strerror(kind, argv[1], w.path)]
           /\ pc' = IF kind = "file" THEN "communicate" ELSE "except OSError"
    /\ spawns' = spawns + 1
    /\ UNCHANGED <<fs, global_pip_args, wrappers, call, result, outcome, printed>>

\* While the caller waits in proc.communicate(), the subprocess, which is the
\* program at <root>/bin/pip, removes that very file ("uninstall -y pip") and
\* goes on running.
ProcUnlink ==
    /\ proc.state = "running"
    /\ fs[os_path_join(proc.cwd, proc.argv[1])] # "absent"
    /\ fs' = [fs EXCEPT ![os_path_join(proc.cwd, proc.argv[1])] = "absent"]
    /\ UNCHANGED <<global_pip_args, wrappers, pc, call, proc, spawns, result, outcome, printed>>

\* The subprocess has written its output and exits.
ProcExit(out, err, rc) ==
    /\ proc.state = "running"
    /\ proc' = [proc EXCEPT !.state = "exited", !.stdout = out, !.stderr = err,
                            !.returncode = rc]
    /\ UNCHANGED <<fs, global_pip_args, wrappers, pc, call, spawns, result, outcome, printed>>

\* subprocess.CalledProcessError(proc.returncode, args[0], (stdout, stderr)):
\* the constructor sets the attributes returncode, cmd and output, and the
\* exception keeps the constructor's arguments in args.
CalledProcessError(returncode, cmd, output) ==
    [kind |-> "CalledProcessError", returncode |-> returncode, cmd |-> cmd, output |-> output,
     args |-> <<returncode, cmd, output>>]

\* A variant of except_CalledProcessError: e.output = error.
except_CalledProcessError_error(e) == [e EXCEPT !.output = e.output[2]]

\* except subprocess.CalledProcessError as e:
\*     output, error = e.output; e.output = output; raise e
except_CalledProcessError(e) ==
    LET output == e.output[1]
        error == e.output[2]
    IN  [e EXCEPT !.output = output]

\* A variant of execute_return: stderr returned as captured, not stripped.
execute_return_raw_stderr(stdout, stderr) ==
    [kind |-> "return", value |-> <<to_text(bytes_strip(stdout)), to_text(stderr)>>]

\* the else branch: return (to_text(stdout.strip()), to_text(stderr.strip()))
execute_return(stdout, stderr) ==
    [kind |-> "return", value |-> <<to_text(bytes_strip(stdout)), to_text(bytes_strip(stderr))>>]

\* A variant of except_OSError_message: the program name as it was given.
except_OSError_message_relative(path, args, e) == args[1] \o <<": ">> \o six_u(e)

\* except OSError as e: the program name made absolute, then
\* raise OSError('%s: %s' % (prog, six.u(e)))
except_OSError_message(path, args, e) ==
    LET prog0 == args[1]
        prog == IF prog0[1] # os_sep THEN os_path_join(path, prog0) ELSE prog0
    IN  prog \o <<": ">> \o six_u(e)

\* What print(stdout, stderr) meets when it writes to sys.stdout: None when
\* the write succeeds, or str(e) of the OSError that the write raises.
PrintErrors == {None, Some(<<"[Errno 32] Broken pipe">>)}

\* A variant of communicate: after a non-zero exit the command is run once
\* more.
communicate_retry(print_error) ==
    /\ pc = "communicate"
    /\ proc.state = "exited"
    /\ print_error = None
    /\ IF proc.returncode # 0 /\ spawns < 2
       THEN /\ pc' = "execute"
            /\ UNCHANGED <<result, printed>>
       ELSE /\ pc' = "finish"
            /\ result' = [kind |-> "return", value |-> <<to_text(bytes_strip(proc.stdout)),
                                                          to_text(bytes_strip(proc.stderr))>>]
            /\ printed' = printed
    /\ UNCHANGED <<fs, global_pip_args, wrappers, call, proc, spawns, outcome>>

\* proc.communicate() returns once the subprocess has exited; then the
\* test of proc.returncode and what follows it to the end of _execute.
\* The print of a non-zero exit is inside the try block: an OSError it
\* raises is handled by "except OSError" like one raised by Popen, and
\* the CalledProcessError is then not raised.
communicate(print_error) ==
    /\ pc = "communicate"
    /\ proc.state = "exited"
    /\ proc.returncode = 0 => print_error = None
    /\ result' =
          IF proc.returncode # 0
          THEN IF print_error # None
               THEN [kind |-> "OSError",
                     message |-> except_OSError_message(wrappers[call.self].path, proc.argv,
                                                        print_error[1])]
               ELSE except_CalledProcessError(
                        CalledProcessError(proc.returncode, proc.argv[1],
                                           <<proc.stdout, proc.stderr>>))
          ELSE execute_return(proc.stdout, proc.stderr)
    /\ printed' = IF proc.returncode # 0 /\ print_error = None
                  THEN Append(printed, <<proc.stdout, proc.stderr>>)
                  ELSE printed
    /\ pc' = "finish"
    /\ UNCHANGED <<fs, global_pip_args, wrappers, call, proc, spawns, outcome>>

except_OSError ==
    /\ pc = "except OSError"
    /\ result' = [kind |-> "OSError",
                  message |-> except_OSError_message(wrappers[call.self].path, proc.argv,
                                                     proc.error)]
    /\ pc' = "finish"
    /\ UNCHANGED <<fs, global_pip_args, wrappers, call, proc, spawns, outcome, printed>>

\* install: except subprocess.CalledProcessError as e:
\*     raise PackageInstallationException((e.returncode, e.output, package_name))
\* A value returned and an OSError pass through.
install_except(res, package_name) ==
    IF res.kind = "CalledProcessError"
    THEN [kind |-> "PackageInstallationException",
          args |-> << <<res.returncode, res.output, package_name>> >>]
    ELSE res

uninstall_except(res, package_name) ==
    IF res.kind = "CalledProcessError"
    THEN [kind |-> "PackageRemovalException",
          args |-> << <<res.returncode, res.output, package_name>> >>]
    ELSE res

wheel_except(res, package_name) ==
    IF res.kind = "CalledProcessError"
    THEN [kind |-> "PackageWheelException",
          args |-> << <<res.returncode, res.output, package_name>> >>]
    ELSE res

\* search: the loop over stdout.split(os.linesep) that fills packages.
RECURSIVE search_loop(_, _)
search_loop(results, packages) ==
    IF results = <<>> THEN packages
    ELSE LET parts == split_1(Head(results), six_u(<<" ", "-", " ">>))
         IN  IF Len(parts) # 2 THEN search_loop(Tail(results), packages)
             ELSE LET name == str_strip(parts[1])
                      description == parts[2]
                  IN  IF Len(name) = 0 THEN search_loop(Tail(results), packages)
                      ELSE search_loop(
                               Tail(results),
                               (name :> str_strip(split_1(description, six_u(<<"<", "b", "r">>))[1]))
                                   @@ packages)

\* A variant of search_parse: a failure of _execute taken for no results.
search_parse_no_results(res) ==
    IF res.kind = "return"
    THEN [kind |-> "return", value |-> search_loop(split(res.value[1], os_linesep), <<>>)]
    ELSE [kind |-> "return", value |-> <<>>]

\* search: "stdout, _ = self._execute(args)" and the loop; search has no
\* except clause, so whatever _execute raises passes through.
search_parse(res) ==
    IF res.kind = "return"
    THEN [kind |-> "return", value |-> search_loop(split(res.value[1], os_linesep), <<>>)]
    ELSE res

\* The public method ends: it returns or raises to its caller.
Leave(op, out) ==
    /\ pc = "finish"
    /\ call.op = op
    /\ outcome' = out
    /\ pc' = "done"
    /\ UNCHANGED <<fs, global_pip_args, wrappers, call, proc, spawns, result, printed>>

install_exit == Leave("install", install_except(result, call.name))

uninstall_exit == Leave("uninstall", uninstall_except(result, call.name))

wheel_exit == Leave("wheel", wheel_except(result, call.name))

search_exit == Leave("search", search_parse(result))

\* The caller has taken what the method returned or raised, and goes on.
Resume ==
    /\ pc = "done"
    /\ pc' = "idle"
    /\ call' = NoCall
    /\ proc' = NoProc
    /\ spawns' = 0
    /\ result' = NoResult
    /\ outcome' = NoResult
    /\ printed' = <<>>
    /\ UNCHANGED <<fs, global_pip_args, wrappers>>

Instances == 1..Len(wrappers)

Next ==
    \/ \E w \in WrapperInputs : New(w[1], w[2])
    \/ \E p \in FsPaths, k \in FsKinds : FsChange(p, k)
    \/ \E i \in Instances : exists(i)
    \/ \E i \in Instances, n \in PackageNames, o \in OptionInputs : install(i, n, o)
    \/ \E i \in Instances, n \in PackageNames : uninstall(i, n)
    \/ \E i \in Instances, n \in PackageNames, o \in OptionInputs : wheel(i, n, o)
    \/ \E i \in Instances, n \in PackageNames : search(i, n)
    \/ Popen
    \/ ProcUnlink
    \/ \E out \in StdoutSamples, err \in StderrSamples, rc \in ExitCodes : ProcExit(out, err, rc)
    \/ \E e \in PrintErrors : communicate(e)
    \/ except_OSError
    \/ install_exit
    \/ uninstall_exit
    \/ wheel_exit
    \/ search_exit
    \/ Resume

Spec == Init /\ [][Next]_vars

---------------------------------------------------------------------------
(* search as a function of what the subprocess wrote: one instance, its    *)
(* search entered, the subprocess launched and exited with code 0.         *)

SearchInit ==
    /\ fs = [p \in FsPaths |-> "file"]
    /\ global_pip_args = class_global_pip_args
    /\ wrappers = << [path |-> <<"/", "v">>, cache |-> None, env |-> os_environ] >>
    /\ pc = "communicate"
    /\ call = [op |-> "search", self |-> 1, name |-> <<"foo">>, options |-> None,
               args |-> search_args(<<"foo">>)]
    /\ \E out \in SearchStdouts :
          proc = [NoProc EXCEPT !.launched = TRUE, !.state = "exited",
                                !.argv = execute_args(1, search_args(<<"foo">>)),
                                !.cwd = <<"/", "v">>, !.env = os_environ, !.stdout = out]
    /\ spawns = 1
    /\ result = NoResult
    /\ outcome = NoResult
    /\ printed = <<>>

SearchNext ==
    \/ \E e \in PrintErrors : communicate(e)
    \/ search_exit

SearchSpec == SearchInit /\ [][SearchNext]_vars

---------------------------------------------------------------------------
(* The claims. *)

Separator == <<" ", "-", " ">>

Marker == <<"<", "b", "r">>

\* The lines of a text.
LinesOf(text) == split(text, <<"\n">>)

HasSeparator(line) == find(line, Separator) # 0

\* The name and the description of a line that holds the separator: the
\* line cut at the first separator, the name trimmed, the description cut
\* at the first marker and trimmed.
NameOf(line) == str_strip(SubSeq(line, 1, find(line, Separator) - 1))

DescriptionOf(line) ==
    LET d == SubSeq(line, find(line, Separator) + Len(Separator), Len(line))
        m == find(d, Marker)
    IN  str_strip(IF m = 0 THEN d ELSE SubSeq(d, 1, m - 1))

\* A mapping is the one the claim describes for these lines: its keys are
\* the non-empty names of the lines with a separator, and each key's value
\* is the description of a line with that name.
IsMappingOf(mapping, lines) ==
    LET good == { k \in 1..Len(lines) : HasSeparator(lines[k]) /\ NameOf(lines[k]) # <<>> }
    IN  /\ DOMAIN mapping = { NameOf(lines[k]) : k \in good }
        /\ \A n \in DOMAIN mapping :
              \E k \in good : NameOf(lines[k]) = n /\ mapping[n] = DescriptionOf(lines[k])

SearchReturned == pc = "done" /\ call.op = "search" /\ outcome.kind = "return"

\* C4: for any stdout of a successful search, the mapping returned holds
\* one entry per distinct non-empty trimmed name of the lines of that stdout
\* that contain " - ", its value the description cut at "<br" and trimmed;
\* other lines contribute nothing.
C4_SearchMapsEveryLine ==
    SearchReturned => IsMappingOf(outcome.value, LinesOf(to_text(proc.stdout)))

\* What the code does instead: the same, of the lines of the stdout with
\* its leading and trailing whitespace removed.
SearchMapsTrimmedStdout ==
    SearchReturned => IsMappingOf(outcome.value, LinesOf(to_text(bytes_strip(proc.stdout))))

---------------------------------------------------------------------------

CommandOps == {"install", "uninstall", "wheel", "search"}

PackageOps == {"install", "uninstall", "wheel"}

\* The call has ended, its subprocess having run and exited with a code
\* other than 0.
EndedNonZero ==
    pc = "done" /\ call.op \in CommandOps /\ proc.state = "exited" /\ proc.returncode # 0

\* The failure kind the spec gives each package operation.
FailureKindOf(op) ==
    CASE op = "install" -> "PackageInstallationException"
      [] op = "uninstall" -> "PackageRemovalException"
      [] op = "wheel" -> "PackageWheelException"

\* C1, as claimed: on a non-zero exit install, uninstall and wheel raise the
\* installation, removal and build failure; the failure carries the exit
\* code and the package name, the three kinds differ, and the generic
\* execution failure does not reach the caller.
C1_PackageFailures ==
    (EndedNonZero /\ call.op \in PackageOps) =>
        /\ outcome.kind = FailureKindOf(call.op)
        /\ outcome.kind # "CalledProcessError"
        /\ outcome.args[1][1] = proc.returncode
        /\ outcome.args[1][3] = call.name
        /\ \A o1, o2 \in PackageOps : o1 # o2 => FailureKindOf(o1) # FailureKindOf(o2)

\* The global flags the spec gives an instance: the flag that disables the
\* version check, then the cache-directory flag with the instance's own
\* cache directory if it was given one.
OwnFlags(w) ==
    << <<"--disable-pip-version-check">> >> \o
    (IF w.cache = None THEN <<>>
     ELSE << <<"--cache-dir">>, os_path_expanduser(os_path_expandvars(w.cache[1])) >>)

\* C2: after any sequence of constructions, the global flags of every
\* instance are exactly its own: the version-check flag, then the
\* cache-directory flag with its own cache directory iff it was given one.
C2_OwnFlagsOnly ==
    \A i \in 1..Len(wrappers) : self_global_pip_args(i) = OwnFlags(wrappers[i])

AsciiWhitespace == {" ", "\t", "\n", "\r", "\f", "x0B"}

\* t is full without its leading and trailing whitespace.
IsTrimOf(t, full) ==
    /\ t # <<>> => (t[1] \notin AsciiWhitespace /\ t[Len(t)] \notin AsciiWhitespace)
    /\ \E i \in 0..Len(full), j \in 0..Len(full) :
          /\ i <= j \/ t = <<>>
          /\ t = SubSeq(full, i + 1, j)
          /\ \A k \in 1..i : full[k] \in AsciiWhitespace
          /\ \A k \in (j + 1)..Len(full) : full[k] \in AsciiWhitespace

InstallEndedZero ==
    pc = "done" /\ call.op = "install" /\ proc.state = "exited" /\ proc.returncode = 0

\* C3: when the subprocess exits with code 0, install raises nothing and
\* returns the pair (stdout, stderr), each decoded to text and without its
\* leading and trailing whitespace.
C3_InstallReturnsTrimmedPair ==
    InstallEndedZero =>
        /\ outcome.kind = "return"
        /\ Len(outcome.value) = 2
        /\ IsTrimOf(outcome.value[1], to_text(proc.stdout))
        /\ IsTrimOf(outcome.value[2], to_text(proc.stderr))

C3_Witness ==
    /\ InstallEndedZero
    /\ proc.stdout = <<" ", "a", " ", "-", " ", "xC3", "xA9", "\n">>
    /\ proc.stderr = <<"\n", "e", "r", "r", " ">>
    /\ outcome.value = << <<"a", " ", "-", " ", "U+E9">>, <<"e", "r", "r">> >>

\* <root>/bin/<tool>
ProgramPath(root) == root \o <<"/", "bin", "/", "pip">>

\* C5: exists() returns true iff a regular file is at <root>/bin/pip, and
\* the call changes neither the filesystem nor the wrapper's root path,
\* global flags or stored environment, and spawns no subprocess.
C5_ExistsIsPure ==
    [][\A i \in 1..Len(wrappers) :
          exists(i) =>
              /\ outcome'.kind = "return"
              /\ outcome'.value =
                    (fs[ProgramPath(wrappers[i].path)] \in {"file", "noexec", "noformat"})
              /\ fs' = fs
              /\ wrappers' = wrappers
              /\ global_pip_args' = global_pip_args
              /\ spawns' = 0
              /\ ~proc'.launched /\ proc'.state = "none"]_vars

C5_Witness ==
    /\ pc = "done" /\ call.op = "exists"
    /\ fs[ProgramPath(wrappers[call.self].path)] = "dir"
    /\ outcome.value = FALSE

\* The kinds of FsKinds under which bin/pip can be launched.
Launchable(kind) == kind = "file"

\* C6: when the executable is missing or cannot be launched as the command
\* launches it, the command raises a launch failure whose message is the
\* program path <root>/bin/pip and the text of the OS error; it is neither a
\* package failure nor the generic execution failure.
C6_LaunchFailure ==
    [][ /\ (pc = "execute" /\ pc' # "execute" /\ call.op \in CommandOps) =>
               (proc'.state = "failed" <=>
                    ~Launchable(fs[ProgramPath(wrappers[call.self].path)]))
        /\ (pc' = "done" /\ pc # "done" /\ call.op \in CommandOps /\ proc.state = "failed") =>
               /\ outcome'.kind = "OSError"
               /\ proc.error # <<>>
               /\ outcome'.message =
                     ProgramPath(wrappers[call.self].path) \o <<": ">> \o proc.error
      ]_vars

C6_Witness ==
    /\ pc = "done" /\ call.op = "search" /\ proc.state = "failed"
    /\ wrappers[call.self].path = <<"/", "w">>
    /\ fs[ProgramPath(<<"/", "w">>)] = "noexec"
    /\ outcome.kind = "OSError"
    /\ outcome.message =
          <<"/", "w", "/", "bin", "/", "pip", ": ",
            "[Errno 13] Permission denied: '", "bin", "/", "pip", "'">>

\* needle is a part of hay.
Contains(hay, needle) == find(hay, needle) # 0

\* The failure carries this output: as the output of the package failure,
\* or as the output attribute or within the arguments of the generic one.
Carries(failure, bytes) ==
    IF failure.kind = "CalledProcessError"
    THEN \/ Contains(failure.output, bytes)
         \/ bytes \in {failure.args[3][k] : k \in 1..Len(failure.args[3])}
    ELSE Contains(failure.args[1][2], bytes)

ExitCodeOf(failure) ==
    IF failure.kind = "CalledProcessError" THEN failure.returncode ELSE failure.args[1][1]

OutputOf(failure) ==
    IF failure.kind = "CalledProcessError" THEN failure.output ELSE failure.args[1][2]

\* The generic execution failure and the package failures built from it.
ExecutionFailureKinds == {"CalledProcessError"} \cup {FailureKindOf(o) : o \in PackageOps}

\* The call has ended by raising the execution failure or a package failure.
EndedInExecutionFailure ==
    pc = "done" /\ call.op \in CommandOps /\ outcome.kind \in ExecutionFailureKinds

\* C7, as claimed: on a non-zero exit the failure carries the exit code and
\* the combined output, what the subprocess wrote to stdout and what it wrote
\* to stderr.
C7_CarriesCombinedOutput ==
    EndedNonZero =>
        /\ outcome.kind \in ExecutionFailureKinds
        /\ ExitCodeOf(outcome) = proc.returncode
        /\ Carries(outcome, proc.stdout)
        /\ Carries(outcome, proc.stderr)

\* C7, amended: the execution failure of a non-zero exit, and the package
\* failure built from it, carry the exit code and, as their output, the
\* captured stdout alone, as the bytes the subprocess wrote; stderr is not
\* in it.
C7_CarriesStdoutOnly ==
    EndedInExecutionFailure =>
        /\ EndedNonZero
        /\ ExitCodeOf(outcome) = proc.returncode
        /\ OutputOf(outcome) = proc.stdout

C7_Witness ==
    /\ EndedInExecutionFailure /\ call.op = "install" /\ proc.returncode = 2
    /\ proc.stdout = <<" ", "a", " ", "-", " ", "xC3", "xA9", "\n">>
    /\ proc.stderr = <<"\n", "e", "r", "r", " ">>
    /\ outcome.args[1][2] = proc.stdout

\* _execute has raised the generic execution failure and the call has ended.
EndedAfterGeneric ==
    pc = "done" /\ call.op \in CommandOps /\ result.kind = "CalledProcessError"

\* C8, as claimed: the generic execution failure escapes from no public
\* method, search included.
C8_GenericNeverEscapes ==
    (pc = "done" /\ call.op \in CommandOps) => outcome.kind # "CalledProcessError"

\* C8, amended: install, uninstall and wheel re-wrap the generic execution
\* failure into their own kinds, so it escapes from none of them; search
\* re-wraps nothing, and the generic failure that _execute raised reaches
\* the caller of search as it is.
C8_OnlySearchLetsGenericEscape ==
    /\ (EndedAfterGeneric /\ call.op \in PackageOps) =>
            outcome.kind = FailureKindOf(call.op)
    /\ (EndedAfterGeneric /\ call.op = "search") => outcome = result
    /\ (pc = "done" /\ outcome.kind = "CalledProcessError") => call.op = "search"

C8_Witness ==
    /\ EndedAfterGeneric /\ call.op = "search" /\ proc.returncode = 1
    /\ outcome.kind = "CalledProcessError" /\ outcome.returncode = 1

\* The arguments the spec gives each command.
OptionsGiven(options) == IF options = None THEN <<>> ELSE options[1]

CommandArgs(c) ==
    CASE c.op = "install" -> << <<"install">>, c.name >> \o OptionsGiven(c.options)
      [] c.op = "uninstall" -> << <<"uninstall">>, <<"-y">>, c.name >>
      [] c.op = "wheel" -> << <<"wheel">>, c.name >> \o OptionsGiven(c.options)
      [] c.op = "search" -> << <<"search">>, c.name >>

\* C9: the argument vector of the spawned subprocess is the path bin/pip,
\* then the instance's global flags, then the arguments of the command; the
\* working directory is the environment root.
C9_ArgumentVector ==
    (call.op \in CommandOps /\ proc.state # "none") =>
        /\ proc.argv = << <<"bin", "/", "pip">> >> \o self_global_pip_args(call.self)
                            \o CommandArgs(call)
        /\ proc.cwd = wrappers[call.self].path
        /\ proc.env = wrappers[call.self].env

C9_Witness ==
    /\ proc.state = "running" /\ call.op = "install" /\ call.options # None
    /\ proc.cwd = <<"/", "w">>
    /\ proc.argv = << <<"bin", "/", "pip">>, <<"--disable-pip-version-check">>,
                      <<"--cache-dir">>, <<"/", "h", "/", "c">>,
                      <<"install">>, <<"foo">>, <<"-U">> >>

\* C10: every call of a command spawns one subprocess, once, and ends only
\* after that subprocess has exited: neither a non-zero exit nor a launch
\* failure is followed by a second spawn.
C10_OneSpawnPerCall ==
    /\ spawns <= 1
    /\ (pc \in {"finish", "done"} /\ call.op \in CommandOps) =>
            /\ spawns = 1
            /\ proc.state \in {"exited", "failed"}
            /\ proc.launched => proc.state = "exited"

C10_Witness ==
    /\ EndedNonZero /\ call.op = "wheel" /\ spawns = 1 /\ proc.launched

\* With several lines of one name, the last one gives the value.
SearchKeepsLastLine ==
    SearchReturned =>
        LET lines == LinesOf(to_text(bytes_strip(proc.stdout)))
        IN  \A n \in DOMAIN outcome.value :
                \E k \in 1..Len(lines) :
                    /\ HasSeparator(lines[k]) /\ NameOf(lines[k]) = n
                    /\ outcome.value[n] = DescriptionOf(lines[k])
                    /\ \A j \in (k + 1)..Len(lines) :
                          ~(HasSeparator(lines[j]) /\ NameOf(lines[j]) = n)

=============================================================================
